---- MODULE Spec2Model ----
(***************************************************************************)
(* Model of the IMDb rating enrichment pipeline of src/scripts:            *)
(*   cleanup_script.py      (per-index resume, overlay from progress file) *)
(*   imdb_rating_script.py  (last-index resume, no overlay)                *)
(* Both scripts share get_imdb_rating / process_titles / add_imdb_ratings  *)
(* in two variants; the variable `script` selects the variant.             *)
(***************************************************************************)
EXTENDS Integers, Sequences, FiniteSets, TLC

VARIABLES
    script,          \* "cleanup" | "imdb": which file of src/scripts runs
    service,         \* ia: title -> the 3 attempt outcomes of the lookup client
    file_exists,     \* os.path.exists(progress_file)
    file_rows,       \* rows of the progress CSV on disk (text cells)
    output,          \* IMDB_Rating column of the output CSV, <<>> until written
    pc,              \* position of add_imdb_ratings (main thread)
    batches,         \* index list handed to each submitted process_titles call
    batch_indices,   \* cleanup: loop variable batch_indices after the submit loop
    start_index,     \* imdb: loop variable start_index after the submit loop
    ratings,         \* the list `ratings` of add_imdb_ratings
    collected,       \* futures already yielded by as_completed
    wpc,             \* position of each process_titles call
    wratings,        \* local list `ratings` of each process_titles call
    wexisting,       \* local existing_df of each process_titles call
    locked,          \* progress_lock is held
    kills,           \* history: number of times the run was killed and restarted
    file0,           \* history: progress file before the first run
    start_file,      \* history: progress file at the startup of the current run
    calls,           \* history: get_imdb_rating calls per index in this run
    fetched,         \* history: value get_imdb_rating returned per index in this run
    store,           \* environment: "ok" | "corrupt" | "flaky" progress storage
    loop_written,    \* history: value the as_completed loop wrote per index
    wappends,        \* history: to_csv calls of each process_titles call
    probe            \* a single get_imdb_rating call under test (SpecFetch)

pipeVars == <<script, service, file_exists, file_rows, output, pc, batches,
              batch_indices, start_index, ratings, collected, wpc, wratings,
              wexisting, locked, kills, file0, start_file, calls, fetched, store,
              loop_written, wappends>>
vars == <<script, service, file_exists, file_rows, output, pc, batches,
          batch_indices, start_index, ratings, collected, wpc, wratings,
          wexisting, locked, kills, file0, start_file, calls, fetched, store,
          loop_written, wappends, probe>>

----------------------------------------------------------------------------
(* Bounds of the model *)

NumRows == 11       \* len(df): rows of the input file
MaxKills == 1       \* how many times a run is killed and restarted

(* Program constants *)

retries == 3        \* get_imdb_rating: retries = 3
batch_size == 5     \* add_imdb_ratings: batch_size = 5
num_threads == 4    \* add_imdb_ratings: num_threads = 4

Scripts == {"cleanup", "imdb"}
Indices == 0 .. (NumRows - 1)

Min(a, b) == IF a < b THEN a ELSE b
Max(a, b) == IF a > b THEN a ELSE b

----------------------------------------------------------------------------
(* Values.  A rating in memory is a float, None, or NaN (what read_csv      *)
(* yields for an empty cell).  A cell of a CSV file is text or empty.       *)

None == <<"None", 0>>
NaN == <<"NaN", 0>>
Float(v) == <<"float", v>>
EmptyCell == <<"empty", 0>>
TextCell(v) == <<"text", v>>

IsAbsent(v) == v = None \/ v = NaN

\* DataFrame.to_csv on one Rating value: None and NaN are written as empty.
ToCsvCell(v) == IF IsAbsent(v) THEN EmptyCell ELSE TextCell(v[2])

\* pd.read_csv on one Rating cell: an empty cell is read as NaN.
ReadCsvCell(c) == IF c = EmptyCell THEN NaN ELSE Float(c[2])

\* DataFrame.to_csv(progress_file, index=False) on the rows of a frame
ToCsv(df) == [k \in 1 .. Len(df) |->
                 [Index |-> df[k].Index, Title |-> df[k].Title,
                  Rating |-> ToCsvCell(df[k].Rating)]]

\* pd.read_csv(progress_file) on the rows of a file
ReadCsv(rows) == [k \in 1 .. Len(rows) |->
                     [Index |-> rows[k].Index, Title |-> rows[k].Title,
                      Rating |-> ReadCsvCell(rows[k].Rating)]]

\* df['title'].tolist()[index]: the title of a row (titles are 100, 101, ...)
TitleOf(index) == 100 + index
Titles == {TitleOf(i) : i \in Indices}

----------------------------------------------------------------------------
(* get_imdb_rating *)

Found(r) == [kind |-> "ok", exc |-> "-", stage |-> "-", rating |-> r]
NoMatch == [kind |-> "empty", exc |-> "-", stage |-> "-", rating |-> None]
Raises(e, s) == [kind |-> "raise", exc |-> e, stage |-> s, rating |-> None]

\* Exception classes the lookup client can raise, with their base classes.
Bases(exc) ==
    CASE exc = "Timeout" -> {"Timeout", "RequestException", "Exception"}
      [] exc = "RequestException" -> {"RequestException", "Exception"}
      [] exc = "HTTPError" -> {"HTTPError", "RequestException", "Exception"}
      [] exc = "IMDbDataAccessError" -> {"IMDbDataAccessError", "Exception"}
      [] OTHER -> {"Exception"}

\* The except clauses of the try statement, in source order.
ExceptClauses(s) ==
    IF s = "cleanup"
    THEN <<"Timeout", "RequestException", "Exception">>
    ELSE <<"Timeout", "RequestException", "HTTPError", "IMDbDataAccessError", "Exception">>

\* Names bound in the module's namespace by its import statements.
ImportedNames(s) == {"Timeout", "RequestException", "IMDbDataAccessError", "Exception"}

\* a try statement without the final `except Exception` clause
MatchClause_NoCatchAll(s, exc, k) ==
    IF "RequestException" \in Bases(exc) THEN "handled" ELSE "unhandled"

\* Python matches the clauses in order; naming an unbound class raises NameError.
RECURSIVE MatchClause(_, _, _)
MatchClause(s, exc, k) ==
    IF k > Len(ExceptClauses(s)) THEN "unhandled"
    ELSE IF ExceptClauses(s)[k] \notin ImportedNames(s) THEN "NameError"
    ELSE IF ExceptClauses(s)[k] \in Bases(exc) THEN "handled"
    ELSE MatchClause(s, exc, k + 1)

\* a loop that gives up at the first exception instead of retrying
AttemptLoop_GiveUp(s, outcomes, attempt, n) ==
    [ret |-> IF outcomes[1].kind = "ok" THEN outcomes[1].rating ELSE None,
     raised |-> "-", searches |-> 1]

\* The for loop over range(retries), from attempt number `attempt` (1-based),
\* with `n` calls of ia.search_movie made so far.
RECURSIVE AttemptLoop(_, _, _, _)
AttemptLoop(s, outcomes, attempt, n) ==
    IF attempt > retries
    THEN [ret |-> None, raised |-> "-", searches |-> n]
    ELSE LET o == outcomes[attempt] IN
         CASE o.kind = "empty" -> [ret |-> None, raised |-> "-", searches |-> n + 1]
           [] o.kind = "ok" -> [ret |-> o.rating, raised |-> "-", searches |-> n + 1]
           [] OTHER ->
                LET m == MatchClause(s, o.exc, 1) IN
                IF m = "handled"
                THEN AttemptLoop(s, outcomes, attempt + 1, n + 1)
                ELSE [ret |-> None,
                      raised |-> IF m = "NameError" THEN "NameError" ELSE o.exc,
                      searches |-> n + 1]

get_imdb_rating(s, outcomes) == AttemptLoop(s, outcomes, 1, 0)

----------------------------------------------------------------------------
(* The lookup service: a deterministic function of the title.               *)

Rep(o) == [k \in 1 .. retries |-> o]

\* every lookup answers on the first attempt; some titles have no rating or no match
ServiceQuiet ==
    [t \in Titles |->
        LET i == t - 100 IN
        IF i % 4 = 1 THEN Rep(Found(None))
        ELSE IF i % 4 = 3 THEN Rep(NoMatch)
        ELSE Rep(Found(Float(10 + i)))]

\* some lookups fail: always, or on the first attempt only
ServiceFaulty ==
    [t \in Titles |->
        LET i == t - 100 IN
        CASE i = 0 -> Rep(Raises("Timeout", "search"))
          [] i = 1 -> [k \in 1 .. retries |->
                          IF k = 1 THEN Raises("Timeout", "search") ELSE Found(Float(11))]
          [] i = 2 -> [k \in 1 .. retries |->
                          IF k = 1 THEN Raises("IMDbDataAccessError", "update")
                          ELSE Found(Float(12))]
          [] i = 5 -> Rep(Raises("KeyError", "search"))
          [] i = 6 -> Rep(Raises("RequestException", "update"))
          [] OTHER -> Rep(Found(Float(10 + i)))]

Services == {ServiceQuiet, ServiceFaulty}

----------------------------------------------------------------------------
(* Sequences and sets of indices *)

SetMin(S) == CHOOSE m \in S : \A x \in S : m <= x
SetMax(S) == CHOOSE m \in S : \A x \in S : m >= x

\* the elements of S in increasing order
Ascending(S) ==
    [k \in 1 .. Cardinality(S) |->
        CHOOSE x \in S : Cardinality({y \in S : y < x}) = k - 1]

\* the elements of S in decreasing order
Descending(S) ==
    [k \in 1 .. Cardinality(S) |->
        CHOOSE x \in S : Cardinality({y \in S : y > x}) = k - 1]

Elems(seq) == {seq[k] : k \in 1 .. Len(seq)}

RECURSIVE SumLen(_, _)
SumLen(seqs, S) ==
    IF S = {} THEN 0
    ELSE LET b == CHOOSE x \in S : TRUE IN Len(seqs[b]) + SumLen(seqs, S \ {b})

\* list(<a set of ints>): the iteration order of a set is not specified; the
\* ascending and the descending order stand for the orders a build can produce.
ListOfSet(S) == {Ascending(S), Descending(S)}

\* progress_df['Index'].tolist() as a set
IndexSet(df) == {df[k].Index : k \in 1 .. Len(df)}

----------------------------------------------------------------------------
(* Progress files present before the first run *)

InitRating(i) == IF i % 2 = 1 THEN EmptyCell ELSE TextCell(50 + i)

ProgressFileOf(P) ==
    [exists |-> TRUE,
     rows |-> [k \in 1 .. Cardinality(P) |->
                  [Index |-> Ascending(P)[k], Title |-> TitleOf(Ascending(P)[k]),
                   Rating |-> InitRating(Ascending(P)[k])]]]

NoProgressFile == [exists |-> FALSE, rows |-> <<>>]

\* a progress file with two records of index 0, as a run of imdb_rating_script
\* on the same input leaves behind
DuplicateRecordFile ==
    [exists |-> TRUE,
     rows |-> <<[Index |-> 0, Title |-> TitleOf(0), Rating |-> TextCell(50)],
                [Index |-> 1, Title |-> TitleOf(1), Rating |-> EmptyCell],
                [Index |-> 0, Title |-> TitleOf(0), Rating |-> TextCell(77)]>>]

InitialFiles ==
    {NoProgressFile, DuplicateRecordFile} \cup
    {ProgressFileOf(P \cap Indices) :
        P \in {{1, 3}, 0 .. 4, {i \in Indices : i % 2 = 0}, Indices}}

----------------------------------------------------------------------------
(* add_imdb_ratings: startup *)

CurrentFile == [exists |-> file_exists, rows |-> file_rows]

\* cleanup 99-103: processed_indices, as a set
ProcessedIndices(f) == IF f.exists THEN IndexSet(ReadCsv(f.rows)) ELSE {}

\* a resume that forgets the recorded progress
UnprocessedSet_All(processed) == Indices

\* cleanup 106-107: all_indices - set(processed_indices)
UnprocessedSet(processed) == Indices \ processed

\* a batch count rounded down
NumBatches_Floor(n) == n \div batch_size

\* cleanup 119: num_batches
NumBatches(n) == (n + batch_size - 1) \div batch_size

\* slices that start one position early: each shares an index with the one before
CleanupBatches_Overlap(unprocessed) ==
    [b \in 1 .. NumBatches(Len(unprocessed)) |->
        SubSeq(unprocessed, (b - 1) * (batch_size - 1) + 1,
               Min((b - 1) * (batch_size - 1) + batch_size, Len(unprocessed)))]

\* cleanup 120-121: the slices unprocessed_indices[batch*5 : (batch+1)*5]
CleanupBatches(unprocessed) ==
    [b \in 1 .. NumBatches(Len(unprocessed)) |->
        SubSeq(unprocessed, (b - 1) * batch_size + 1,
               Min(b * batch_size, Len(unprocessed)))]

\* imdb 107-112: len(titles_to_process); iloc[last_index + 1:] is empty past the end
TitlesToProcessLen(f) ==
    IF f.exists
    THEN Max(0, NumRows - (SetMax(IndexSet(ReadCsv(f.rows))) + 1))
    ELSE NumRows

\* imdb 125-128 with 65: the calls process_titles(titles, start_index, end_index)
\* iterate range(start_index, end_index) over the full title list
ImdbBatches(n) ==
    [b \in 1 .. NumBatches(n) |->
        [k \in 1 .. (Min((b - 1) * batch_size + batch_size, n) - (b - 1) * batch_size) |->
            (b - 1) * batch_size + (k - 1)]]

\* a ratings list one entry short: [None] * (len(df) - 1)
NoRatings_Short == [i \in 0 .. (NumRows - 2) |-> None]

\* cleanup 110 / imdb 115: ratings = [None] * len(df)
NoRatings == [i \in Indices |-> None]
NoCalls == [i \in Indices |-> 0]
NotFetched == <<"unfetched", 0>>
NoFetched == [i \in Indices |-> NotFetched]
NotWritten == <<"unwritten", 0>>
NoneWritten == [i \in Indices |-> NotWritten]

\* cleanup 100 / imdb 108: pd.read_csv raises on a progress file it cannot parse
ParseFails(f) == f.exists /\ store = "corrupt"

\* the run state once `bs` has been submitted to the executor
Submitted(bs) ==
    /\ batches' = bs
    /\ wpc' = [b \in 1 .. Len(bs) |-> "queued"]
    /\ wratings' = [b \in 1 .. Len(bs) |-> <<>>]
    /\ wexisting' = [b \in 1 .. Len(bs) |-> NoProgressFile]
    /\ wappends' = [b \in 1 .. Len(bs) |-> 0]
    /\ collected' = {}
    /\ ratings' = NoRatings
    /\ loop_written' = NoneWritten
    /\ pc' = IF Len(bs) = 0 THEN "assemble" ELSE "collect"

\* cleanup 98-123 / imdb 106-129
Startup ==
    /\ pc = "start"
    /\ ~ParseFails(CurrentFile)
    /\ start_file' = CurrentFile
    /\ IF script = "cleanup"
       THEN \E unprocessed_indices \in
                ListOfSet(UnprocessedSet(ProcessedIndices(CurrentFile))) :
              \E bs \in {CleanupBatches(unprocessed_indices)} :
              /\ Submitted(bs)
              /\ batch_indices' = IF Len(bs) = 0 THEN <<>> ELSE bs[Len(bs)]
              /\ start_index' = 0
       ELSE \E bs \in {ImdbBatches(TitlesToProcessLen(CurrentFile))} :
            /\ Submitted(bs)
            /\ start_index' = IF Len(bs) = 0 THEN 0 ELSE (Len(bs) - 1) * batch_size
            /\ batch_indices' = <<>>
    /\ UNCHANGED <<script, service, file_exists, file_rows, output, locked, kills,
                   file0, calls, fetched, probe, store>>

\* cleanup 100 / imdb 108: the exception of pd.read_csv leaves add_imdb_ratings
StartupFail ==
    /\ pc = "start"
    /\ ParseFails(CurrentFile)
    /\ start_file' = CurrentFile
    /\ pc' = "failed"
    /\ UNCHANGED <<script, service, file_exists, file_rows, output, batches,
                   batch_indices, start_index, ratings, collected, wpc, wratings,
                   wexisting, locked, kills, file0, calls, fetched, probe, store,
                   loop_written, wappends>>

----------------------------------------------------------------------------
(* process_titles: one call per submitted batch *)

Workers == 1 .. Len(batches)
Running == {b \in Workers : wpc[b] \notin {"queued", "done", "raised"}}
Finished(b) == wpc[b] \in {"done", "raised"}

\* a pool thread takes the next queued call (max_workers threads, FIFO queue)
StartWorker(b) ==
    /\ pc \in {"collect", "aborting"}
    /\ wpc[b] = "queued"
    /\ \A c \in Workers : c < b => wpc[c] # "queued"
    /\ Cardinality(Running) < num_threads
    /\ wpc' = [wpc EXCEPT ![b] = "fetch"]
    /\ UNCHANGED <<script, service, file_exists, file_rows, output, pc, batches,
                   batch_indices, start_index, ratings, collected, wratings,
                   wexisting, locked, kills, file0, start_file, calls, fetched, probe, store,
                   loop_written, wappends>>

\* cleanup 58-62 / imdb 65-69: one iteration of the loop over the batch
Fetch(b) ==
    /\ pc \in {"collect", "aborting"}
    /\ wpc[b] = "fetch"
    /\ LET index == batches[b][Len(wratings[b]) + 1]
           r == get_imdb_rating(script, service[TitleOf(index)])
       IN /\ calls' = [calls EXCEPT ![index] = @ + 1]
          /\ IF r.raised # "-"
             THEN /\ wpc' = [wpc EXCEPT ![b] = "raised"]
                  /\ UNCHANGED <<wratings, fetched>>
             ELSE /\ wratings' = [wratings EXCEPT ![b] = Append(@, r.ret)]
                  /\ fetched' = [fetched EXCEPT ![index] = r.ret]
                  /\ wpc' = [wpc EXCEPT ![b] =
                               IF Len(wratings[b]) + 1 = Len(batches[b])
                               THEN "lock" ELSE "fetch"]
    /\ UNCHANGED <<script, service, file_exists, file_rows, output, pc, batches,
                   batch_indices, start_index, ratings, collected, wexisting,
                   locked, kills, file0, start_file, probe, store,
                   loop_written, wappends>>

\* records collected with insert(0, ...) instead of append: the reverse order
ProgressDf_Reversed(b) ==
    [k \in 1 .. Len(wratings[b]) |->
        [Index |-> batches[b][Len(wratings[b]) + 1 - k],
         Title |-> TitleOf(batches[b][Len(wratings[b]) + 1 - k]),
         Rating |-> wratings[b][Len(wratings[b]) + 1 - k]]]

\* cleanup 69 / imdb 77: progress_df = pd.DataFrame(progress)
ProgressDf(b) ==
    [k \in 1 .. Len(wratings[b]) |->
        [Index |-> batches[b][k], Title |-> TitleOf(batches[b][k]),
         Rating |-> wratings[b][k]]]

\* an append that does not wait for the lock
LockFree_Unguarded == TRUE

\* cleanup 70 / imdb 78: `with progress_lock:` can be entered
LockFree == ~locked

Acquire(b) ==
    /\ pc \in {"collect", "aborting"}
    /\ wpc[b] = "lock"
    /\ LockFree
    /\ locked' = TRUE
    /\ wpc' = [wpc EXCEPT ![b] = "read"]
    /\ UNCHANGED <<script, service, file_exists, file_rows, output, pc, batches,
                   batch_indices, start_index, ratings, collected, wratings,
                   wexisting, kills, file0, start_file, calls, fetched, probe, store,
                   loop_written, wappends>>

\* cleanup 71-72 / imdb 79-80: os.path.exists and pd.read_csv
ReadExisting(b) ==
    /\ pc \in {"collect", "aborting"}
    /\ wpc[b] = "read"
    /\ wexisting' = [wexisting EXCEPT ![b] =
                        [exists |-> file_exists, rows |-> ReadCsv(file_rows)]]
    /\ wpc' = [wpc EXCEPT ![b] = "write"]
    /\ UNCHANGED <<script, service, file_exists, file_rows, output, pc, batches,
                   batch_indices, start_index, ratings, collected, wratings,
                   locked, kills, file0, start_file, calls, fetched, probe, store,
                   loop_written, wappends>>

\* an append that rewrites the file with the new records only
CombinedDf_Overwrite(existing, progress_df) == progress_df

\* cleanup 73-75 / imdb 81-83: combined_df
CombinedDf(existing, progress_df) ==
    IF existing.exists THEN existing.rows \o progress_df ELSE progress_df

\* cleanup 76 / imdb 84: combined_df.to_csv(progress_file, index=False)
WriteCombined(b) ==
    /\ pc \in {"collect", "aborting"}
    /\ wpc[b] = "write"
    /\ file_rows' = ToCsv(CombinedDf(wexisting[b], ProgressDf(b)))
    /\ file_exists' = TRUE
    /\ wappends' = [wappends EXCEPT ![b] = @ + 1]
    /\ wpc' = [wpc EXCEPT ![b] = "release"]
    /\ UNCHANGED <<script, service, output, pc, batches, batch_indices,
                   start_index, ratings, collected, wratings, wexisting, locked,
                   kills, file0, start_file, calls, fetched, probe, store,
                   loop_written>>

\* end of the with block, and `return ratings`
Release(b) ==
    /\ pc \in {"collect", "aborting"}
    /\ wpc[b] = "release"
    /\ locked' = FALSE
    /\ wpc' = [wpc EXCEPT ![b] = "done"]
    /\ UNCHANGED <<script, service, file_exists, file_rows, output, pc, batches,
                   batch_indices, start_index, ratings, collected, wratings,
                   wexisting, kills, file0, start_file, calls, fetched, probe, store,
                   loop_written, wappends>>

\* cleanup 72 / imdb 80: pd.read_csv raises inside the with block
ReadFail(b) ==
    /\ pc \in {"collect", "aborting"}
    /\ wpc[b] = "read"
    /\ store = "flaky"
    /\ file_exists
    /\ wpc' = [wpc EXCEPT ![b] = "unwind"]
    /\ UNCHANGED <<script, service, file_exists, file_rows, output, pc, batches,
                   batch_indices, start_index, ratings, collected, wratings,
                   wexisting, locked, kills, file0, start_file, calls, fetched,
                   probe, store, loop_written, wappends>>

\* cleanup 76 / imdb 84: to_csv raises before it writes (the file is left as it was)
WriteFail(b) ==
    /\ pc \in {"collect", "aborting"}
    /\ wpc[b] = "write"
    /\ store = "flaky"
    /\ wpc' = [wpc EXCEPT ![b] = "unwind"]
    /\ UNCHANGED <<script, service, file_exists, file_rows, output, pc, batches,
                   batch_indices, start_index, ratings, collected, wratings,
                   wexisting, locked, kills, file0, start_file, calls, fetched,
                   probe, store, loop_written, wappends>>

\* a with statement that keeps the lock when its body raises
LockAfterRaise_Held == TRUE

\* cleanup 70 / imdb 78: the with statement releases the lock when its body raises
LockAfterRaise == FALSE

\* the exception leaves the with block and process_titles
ReleaseOnRaise(b) ==
    /\ pc \in {"collect", "aborting"}
    /\ wpc[b] = "unwind"
    /\ locked' = LockAfterRaise
    /\ wpc' = [wpc EXCEPT ![b] = "raised"]
    /\ UNCHANGED <<script, service, file_exists, file_rows, output, pc, batches,
                   batch_indices, start_index, ratings, collected, wratings,
                   wexisting, kills, file0, start_file, calls, fetched,
                   probe, store, loop_written, wappends>>

----------------------------------------------------------------------------
(* add_imdb_ratings: collecting the futures, assembling, writing the output *)

\* ratings[index] = rating for each pair, in order, guarded by index < len(ratings)
RECURSIVE AssignAll(_, _, _)
AssignAll(r, pairs, k) ==
    IF k > Len(pairs) THEN r
    ELSE AssignAll(IF pairs[k][1] < NumRows THEN [r EXCEPT ![pairs[k][1]] = pairs[k][2]]
                   ELSE r,
                   pairs, k + 1)

\* cleanup 127: zip(batch_indices, batch_ratings), batch_indices being the
\* variable the submit loop assigned last
CleanupPairs(last_batch_indices, batch_ratings) ==
    [k \in 1 .. Min(Len(last_batch_indices), Len(batch_ratings)) |->
        <<last_batch_indices[k], batch_ratings[k]>>]

\* imdb 133-134: index = start_index + i, start_index being the variable the
\* submit loop assigned last
ImdbPairs(batch_ratings) ==
    [k \in 1 .. Len(batch_ratings) |-> <<start_index + (k - 1), batch_ratings[k]>>]

\* cleanup 126-129 / imdb 132-136: the body of the as_completed loop
CollectInto(r, batch_ratings) ==
    AssignAll(r, IF script = "cleanup" THEN CleanupPairs(batch_indices, batch_ratings)
                 ELSE ImdbPairs(batch_ratings), 1)

\* a future.result() whose exception is swallowed
ResultRaises_Swallowed(b) == FALSE

\* cleanup 126 / imdb 132: future.result() re-raises the exception of the call
ResultRaises(b) == wpc[b] = "raised"

\* a loop that stops at the first completed future
AllCollected_First(c) == TRUE

\* cleanup 125 / imdb 131: as_completed(futures) is exhausted
AllCollected(c) == c = Workers

\* as_completed yields a finished future whose call returned
Collect(b) ==
    /\ pc = "collect"
    /\ b \notin collected
    /\ Finished(b)
    /\ ~ResultRaises(b)
    /\ ratings' = CollectInto(ratings, wratings[b])
    /\ loop_written' = CollectInto(loop_written, wratings[b])
    /\ collected' = collected \cup {b}
    /\ pc' = IF AllCollected(collected \cup {b}) THEN "assemble" ELSE "collect"
    /\ UNCHANGED <<script, service, file_exists, file_rows, output, batches,
                   batch_indices, start_index, wpc, wratings, wexisting, locked,
                   kills, file0, start_file, calls, fetched, probe, store,
                   wappends>>

\* as_completed yields a finished future whose call raised: future.result()
\* re-raises and the with block is left
CollectRaise(b) ==
    /\ pc = "collect"
    /\ b \notin collected
    /\ Finished(b)
    /\ ResultRaises(b)
    /\ pc' = "aborting"
    /\ UNCHANGED <<script, service, file_exists, file_rows, output, batches,
                   batch_indices, start_index, ratings, collected, wpc, wratings,
                   wexisting, locked, kills, file0, start_file, calls, fetched, probe, store,
                   loop_written, wappends>>

\* ThreadPoolExecutor.__exit__: shutdown(wait=True), then the exception leaves
\* add_imdb_ratings
Abort ==
    /\ pc = "aborting"
    /\ \A b \in Workers : Finished(b)
    /\ pc' = "failed"
    /\ UNCHANGED <<script, service, file_exists, file_rows, output, batches,
                   batch_indices, start_index, ratings, collected, wpc, wratings,
                   wexisting, locked, kills, file0, start_file, calls, fetched, probe, store,
                   loop_written, wappends>>

\* a fill that keeps the first record of an index instead of the last
OverlayRows_FirstWins(r, df, k) ==
    [i \in DOMAIN r |->
        IF \E j \in k .. Len(df) : df[j].Index = i
        THEN df[SetMin({j \in k .. Len(df) : df[j].Index = i})].Rating
        ELSE r[i]]

\* cleanup 132-135: ratings[int(row['Index'])] = row['Rating'] for every row
RECURSIVE OverlayRows(_, _, _)
OverlayRows(r, df, k) ==
    IF k > Len(df) THEN r
    ELSE OverlayRows([r EXCEPT ![df[k].Index] = df[k].Rating], df, k + 1)

\* an assembly that leaves out the fill from the progress file
FillFromProgress_Skip(r, f) == r

FillFromProgress(r, f) ==
    IF f.exists THEN OverlayRows(r, ReadCsv(f.rows), 1) ELSE r

\* the ratings the output column is built from
FinalRatings(r, f) == IF script = "cleanup" THEN FillFromProgress(r, f) ELSE r

\* cleanup 138-142 / imdb 139-143: the IMDB_Rating column as written by to_csv
OutputColumn(r) == [k \in 1 .. Cardinality(DOMAIN r) |-> ToCsvCell(r[k - 1])]

\* cleanup 131-142 / imdb 138-143
Assemble ==
    /\ pc = "assemble"
    /\ ratings' = FinalRatings(ratings, CurrentFile)
    /\ output' = OutputColumn(FinalRatings(ratings, CurrentFile))
    /\ pc' = "done"
    /\ UNCHANGED <<script, service, file_exists, file_rows, batches, batch_indices,
                   start_index, collected, wpc, wratings, wexisting, locked, kills,
                   file0, start_file, calls, fetched, probe, store,
                   loop_written, wappends>>

\* the process is killed and the script is started again on the same input
KillAndRestart ==
    /\ pc \in {"collect", "assemble", "aborting"}
    /\ kills < MaxKills
    /\ kills' = kills + 1
    /\ pc' = "start"
    /\ batches' = <<>>
    /\ batch_indices' = <<>>
    /\ start_index' = 0
    /\ ratings' = NoRatings
    /\ collected' = {}
    /\ wpc' = <<>>
    /\ wratings' = <<>>
    /\ wexisting' = <<>>
    /\ locked' = FALSE
    /\ calls' = NoCalls
    /\ fetched' = NoFetched
    /\ start_file' = CurrentFile
    /\ loop_written' = NoneWritten
    /\ wappends' = <<>>
    /\ UNCHANGED <<script, service, file_exists, file_rows, output, file0, probe,
                   store>>

----------------------------------------------------------------------------
(* The pipeline *)

\* the progress storage: sound, unparseable at startup, or failing now and then
StoreModes == {"ok", "corrupt", "flaky"}

IdleProbe == [phase |-> "idle", outcomes |-> <<>>, result |-> <<>>]

Init ==
    /\ script \in Scripts
    /\ service \in Services
    /\ store \in StoreModes
    /\ \E f \in InitialFiles :
         /\ store = "corrupt" => f.exists
         /\ file_exists = f.exists
         /\ file_rows = f.rows
         /\ file0 = f
         /\ start_file = f
    /\ loop_written = NoneWritten
    /\ wappends = <<>>
    /\ output = <<>>
    /\ pc = "start"
    /\ batches = <<>>
    /\ batch_indices = <<>>
    /\ start_index = 0
    /\ ratings = NoRatings
    /\ collected = {}
    /\ wpc = <<>>
    /\ wratings = <<>>
    /\ wexisting = <<>>
    /\ locked = FALSE
    /\ kills = 0
    /\ calls = NoCalls
    /\ fetched = NoFetched
    /\ probe = IdleProbe

Next ==
    \/ Startup
    \/ StartupFail
    \/ \E b \in Workers : ReadFail(b)
    \/ \E b \in Workers : WriteFail(b)
    \/ \E b \in Workers : ReleaseOnRaise(b)
    \/ \E b \in Workers : StartWorker(b)
    \/ \E b \in Workers : Fetch(b)
    \/ \E b \in Workers : Acquire(b)
    \/ \E b \in Workers : ReadExisting(b)
    \/ \E b \in Workers : WriteCombined(b)
    \/ \E b \in Workers : Release(b)
    \/ \E b \in Workers : Collect(b)
    \/ \E b \in Workers : CollectRaise(b)
    \/ Abort
    \/ Assemble
    \/ KillAndRestart

Spec == Init /\ [][Next]_vars

\* every step of the run but the kill: the threads of a live process keep running
RunStep ==
    \/ Startup
    \/ StartupFail
    \/ \E b \in Workers : ReadFail(b)
    \/ \E b \in Workers : WriteFail(b)
    \/ \E b \in Workers : ReleaseOnRaise(b)
    \/ \E b \in Workers : StartWorker(b)
    \/ \E b \in Workers : Fetch(b)
    \/ \E b \in Workers : Acquire(b)
    \/ \E b \in Workers : ReadExisting(b)
    \/ \E b \in Workers : WriteCombined(b)
    \/ \E b \in Workers : Release(b)
    \/ \E b \in Workers : Collect(b)
    \/ \E b \in Workers : CollectRaise(b)
    \/ Abort
    \/ Assemble

\* the pipeline with its threads scheduled: a step that stays possible is taken
LiveSpec == Init /\ [][Next]_vars /\ WF_vars(RunStep)

----------------------------------------------------------------------------
(* get_imdb_rating on its own: one call for every pattern of attempt outcomes *)

ExceptionKinds == {"Timeout", "RequestException", "HTTPError", "IMDbDataAccessError",
                   "KeyError"}
AttemptOutcomes ==
    {NoMatch, Found(None), Found(Float(7))} \cup
    {Raises(e, st) : e \in ExceptionKinds, st \in {"search", "update"}}

InitFetch ==
    /\ script \in Scripts
    /\ service = ServiceQuiet
    /\ store = "ok"
    /\ loop_written = NoneWritten
    /\ wappends = <<>>
    /\ file_exists = FALSE
    /\ file_rows = <<>>
    /\ file0 = NoProgressFile
    /\ start_file = NoProgressFile
    /\ output = <<>>
    /\ pc = "start"
    /\ batches = <<>>
    /\ batch_indices = <<>>
    /\ start_index = 0
    /\ ratings = NoRatings
    /\ collected = {}
    /\ wpc = <<>>
    /\ wratings = <<>>
    /\ wexisting = <<>>
    /\ locked = FALSE
    /\ kills = 0
    /\ calls = NoCalls
    /\ fetched = NoFetched
    /\ \E o \in [1 .. retries -> AttemptOutcomes] :
         probe = [phase |-> "call", outcomes |-> o, result |-> <<>>]

CallGetImdbRating ==
    /\ probe.phase = "call"
    /\ probe' = [probe EXCEPT !.phase = "returned",
                              !.result = get_imdb_rating(script, probe.outcomes)]
    /\ UNCHANGED pipeVars

NextFetch == CallGetImdbRating

SpecFetch == InitFetch /\ [][NextFetch]_vars

----------------------------------------------------------------------------
(* Properties *)

Cleanup == script = "cleanup"

\* the batches whose append (the rewrite of the progress file) has finished
Appended == {b \in Workers : wpc[b] \in {"release", "done"}}

\* the workers inside the append: between the acquire and the release of the lock
InAppend == {b \in Workers : wpc[b] \in {"read", "write", "release", "unwind"}}

\* the Rating read back from the last record of index i in a progress file
RecordedRating(f, i) ==
    LET df == ReadCsv(f.rows)
        last == SetMax({k \in 1 .. Len(df) : df[k].Index = i})
    IN df[last].Rating

NoDuplicateIndex(rows) ==
    \A j, k \in 1 .. Len(rows) : rows[j].Index = rows[k].Index => j = k

\* two ratings are the same value, None and NaN both standing for absence
SameRating(a, b) == (IsAbsent(a) /\ IsAbsent(b)) \/ a = b

\* the indices handed to the workers in this run
Dispatched == UNION {Elems(batches[b]) : b \in Workers}

(* C1: cleanup_script never calls get_imdb_rating for an index that has a   *)
(* record in the progress file present at startup, whether the recorded     *)
(* Rating is a value or empty.                                              *)
C1_NoRefetch ==
    (Cleanup /\ start_file.exists) =>
        \A i \in ProcessedIndices(start_file) : calls[i] = 0

C1_Witness ==
    /\ Cleanup /\ pc = "done" /\ start_file.exists
    /\ \E i \in ProcessedIndices(start_file) : RecordedRating(start_file, i) = NaN
    /\ \E i \in ProcessedIndices(start_file) : RecordedRating(start_file, i) # NaN
    /\ \E i \in Indices : calls[i] = 1

(* C2: the ratings vector of an uninterrupted run of cleanup_script on a    *)
(* progress file f0, computed batch after batch in submission order.        *)
RefBatchRatings(batch) ==
    [k \in 1 .. Len(batch) |-> get_imdb_rating(script, service[TitleOf(batch[k])]).ret]

RefProgressDf(batch) ==
    [k \in 1 .. Len(batch) |->
        [Index |-> batch[k], Title |-> TitleOf(batch[k]),
         Rating |-> RefBatchRatings(batch)[k]]]

RECURSIVE RefAppendAll(_, _, _)
RefAppendAll(f, bs, b) ==
    IF b > Len(bs) THEN f
    ELSE RefAppendAll(
             [exists |-> TRUE,
              rows |-> ToCsv(CombinedDf([exists |-> f.exists, rows |-> ReadCsv(f.rows)],
                                        RefProgressDf(bs[b])))],
             bs, b + 1)

RECURSIVE RefCollectAll(_, _, _)
RefCollectAll(r, bs, b) ==
    IF b > Len(bs) THEN r
    ELSE RefCollectAll(AssignAll(r, CleanupPairs(bs[Len(bs)], RefBatchRatings(bs[b])), 1),
                       bs, b + 1)

UninterruptedRatings(f0) ==
    LET bs == CleanupBatches(Ascending(UnprocessedSet(ProcessedIndices(f0))))
    IN FillFromProgress(RefCollectAll(NoRatings, bs, 1), RefAppendAll(f0, bs, 1))

(* C2: with a deterministic lookup, a run of cleanup_script that completes, *)
(* after any number of kills between appends and restarts on the partially  *)
(* written progress file, ends with the ratings vector of the uninterrupted *)
(* run, index by index.                                                     *)
C2_ResumeEquivalence ==
    (Cleanup /\ pc = "done") => ratings = UninterruptedRatings(file0)

C2_Witness ==
    /\ Cleanup /\ pc = "done" /\ kills > 0
    /\ start_file.exists
    /\ start_file # file0
    /\ Len(start_file.rows) < NumRows
    /\ \E i \in Indices : calls[i] = 1

(* C3: under every interleaving of the workers no progress record is lost:  *)
(* the progress file always holds, in front, the records it held at startup *)
(* and, after them, every record of every batch whose append has finished;  *)
(* its record count is the startup count plus the sizes of those batches.   *)
C3_NoLostRecord ==
    (pc # "start") =>
        /\ file_exists = (start_file.exists \/ Appended # {})
        /\ Len(file_rows) = Len(start_file.rows) + SumLen(batches, Appended)
        /\ SubSeq(file_rows, 1, Len(start_file.rows)) = start_file.rows
        /\ \A b \in Appended : \A k \in 1 .. Len(batches[b]) :
              \E j \in 1 .. Len(file_rows) : file_rows[j] = ToCsv(ProgressDf(b))[k]

C3_Witness ==
    /\ pc = "collect"
    /\ start_file.exists
    /\ Cardinality(Appended) >= 2
    /\ \A b \in Workers : wpc[b] = "done"
    /\ Len(file_rows) = Len(start_file.rows) + SumLen(batches, Workers)

(* C4: after a successful run of cleanup_script the ratings vector holds,   *)
(* at every index recorded in the startup progress file, the recorded value *)
(* and, at every other index, the value get_imdb_rating returned in this    *)
(* run (absence being absence), whatever the order of batch completion.     *)
C4_FinalVector ==
    (Cleanup /\ pc = "done") =>
        \A i \in Indices :
            IF i \in ProcessedIndices(start_file)
            THEN ratings[i] = RecordedRating(start_file, i)
            ELSE /\ fetched[i] # NotFetched
                 /\ SameRating(ratings[i], fetched[i])

C4_Witness ==
    /\ Cleanup /\ pc = "done" /\ kills = 0
    /\ start_file.exists
    /\ Len(batches) >= 2
    /\ \E i \in ProcessedIndices(start_file) : ratings[i] = Float(50 + i)
    /\ \E i \in Indices : fetched[i] = None /\ ratings[i] = NaN
    /\ \E i \in Indices : fetched[i] = Float(10 + i) /\ ratings[i] = Float(10 + i)

(* C5: cleanup_script.get_imdb_rating calls ia.search_movie exactly 3 times *)
(* and returns None without raising when every attempt raises, whatever the *)
(* exception; when the first search raises nothing and finds nothing it     *)
(* calls it exactly once and returns None.                                  *)
C5_BoundedRetries ==
    (Cleanup /\ probe.phase = "returned") =>
        /\ (\A k \in 1 .. retries : probe.outcomes[k].kind = "raise") =>
              /\ probe.result.searches = retries
              /\ probe.result.ret = None
              /\ probe.result.raised = "-"
        /\ (probe.outcomes[1] = NoMatch) =>
              /\ probe.result.searches = 1
              /\ probe.result.ret = None
              /\ probe.result.raised = "-"

C5_Witness ==
    /\ Cleanup /\ probe.phase = "returned"
    /\ probe.outcomes[1] = Raises("Timeout", "search")
    /\ probe.outcomes[2] = Raises("RequestException", "update")
    /\ probe.outcomes[3] = Raises("KeyError", "search")
    /\ probe.result.searches = 3

(* C6: imdb_rating_script.get_imdb_rating never raises to its caller,       *)
(* whatever exception ia.search_movie or ia.update raises.                  *)
C6_NeverRaises ==
    (script = "imdb" /\ probe.phase = "returned") => probe.result.raised = "-"

(* C7: in imdb_rating_script, when a progress file exists at startup, the   *)
(* indices dispatched to the workers are exactly the row indices that have  *)
(* no record in the progress file.                                          *)
C7_DispatchUnrecorded ==
    (script = "imdb" /\ pc # "start" /\ start_file.exists) =>
        Dispatched = Indices \ ProcessedIndices(start_file)

(* C8: in both scripts, when the loop over as_completed has ended (before   *)
(* any fill from the progress file), ratings[i] is the value fetched for    *)
(* titles[i], for every index i fetched in this run.                        *)
C8_CollectedByIndex ==
    (pc = "assemble") =>
        \A i \in Indices : fetched[i] # NotFetched => ratings[i] = fetched[i]

(* C9: at most one worker is inside the append (the read of the existing    *)
(* file, the concatenation and the rewrite) at any time.                    *)
C9_OneAppendAtATime == Cardinality(InAppend) <= 1

C9_Witness ==
    /\ \E b \in Workers : wpc[b] = "write"
    /\ \E b \in Workers : wpc[b] = "lock"
    /\ locked

(* C10: in cleanup_script, when the progress file before the first run has  *)
(* at most one record per index and only indices of [0,N), the progress     *)
(* file after a completed run holds exactly N records, one per index of     *)
(* [0,N), also when interrupted runs came before the completed one.         *)
C10_OneRecordPerIndex ==
    (/\ Cleanup /\ pc = "done"
     /\ NoDuplicateIndex(file0.rows)
     /\ IndexSet(file0.rows) \subseteq Indices) =>
        /\ file_exists
        /\ Len(file_rows) = NumRows
        /\ IndexSet(file_rows) = Indices
        /\ NoDuplicateIndex(file_rows)

C10_Witness ==
    /\ Cleanup /\ pc = "done" /\ kills > 0
    /\ file0.exists
    /\ Len(file0.rows) < Len(start_file.rows)
    /\ Len(start_file.rows) < NumRows
    /\ Len(file_rows) = NumRows

----------------------------------------------------------------------------
(* Properties, continued *)

IsRating(v) == IsAbsent(v) \/ v[1] = "float"
IsCell(c) == c = EmptyCell \/ c[1] = "text"

\* the indices without a record in the progress file at the startup of this run
Unprocessed == Indices \ ProcessedIndices(start_file)

RECURSIVE SumAppends(_)
SumAppends(S) ==
    IF S = {} THEN 0
    ELSE LET b == CHOOSE x \in S : TRUE IN wappends[b] + SumAppends(S \ {b})

\* the most batches a run can submit
MaxBatches == (NumRows + batch_size - 1) \div batch_size

C12_FreshOverProgress ==
    (Cleanup /\ pc = "done") =>
        \A i \in Indices :
            (loop_written[i] # NotWritten /\ i \in ProcessedIndices(CurrentFile)) =>
                SameRating(ratings[i], loop_written[i])

(* C13: a process_titles call appends to the progress file at most once,    *)
(* only after the last fetch of its batch, and exactly once before it       *)
(* returns and before the scheduler sees its results; a complete run of     *)
(* cleanup_script with U unprocessed indices makes ceil(U/5) appends.       *)
C13_OneAppendPerBatch ==
    /\ \A b \in Workers :
          /\ wappends[b] <= 1
          /\ wappends[b] = 1 => Len(wratings[b]) = Len(batches[b])
          /\ wpc[b] = "done" => wappends[b] = 1
          /\ b \in collected => wappends[b] = 1
    /\ (Cleanup /\ pc \in {"assemble", "done"}) =>
          LET U == Cardinality(Unprocessed)
              total == SumAppends(Workers)
          IN /\ total * batch_size >= U
             /\ (total - 1) * batch_size < U
             /\ U = 0 => total = 0

C13_Witness ==
    /\ Cleanup /\ pc = "done"
    /\ Cardinality(Unprocessed) = NumRows - 2
    /\ SumAppends(Workers) = (NumRows - 2 + batch_size - 1) \div batch_size
    /\ SumAppends(Workers) >= 2

(* C14: in cleanup_script the submitted batches partition the unprocessed   *)
(* index set: every unprocessed index is in exactly one batch at exactly    *)
(* one position, no batch holds a processed index, no batch is empty, every *)
(* batch has at most 5 indices and every batch but the last exactly 5.      *)
C14_BatchesPartition ==
    (Cleanup /\ pc \in {"collect", "assemble", "done", "aborting"}) =>
        /\ \A i \in Unprocessed :
              Cardinality({bk \in {<<b, k>> : b \in Workers, k \in 1 .. batch_size} :
                              bk[2] <= Len(batches[bk[1]])
                              /\ batches[bk[1]][bk[2]] = i}) = 1
        /\ \A b \in Workers : Elems(batches[b]) \subseteq Unprocessed
        /\ \A b \in Workers : Len(batches[b]) >= 1 /\ Len(batches[b]) <= batch_size
        /\ \A b \in Workers : b < Len(batches) => Len(batches[b]) = batch_size

C14_Witness ==
    /\ Cleanup /\ pc = "collect"
    /\ ProcessedIndices(start_file) = {1, 3}
    /\ Len(batches) = NumBatches(NumRows - 2)
    /\ Len(batches) >= 2
    /\ 1 \notin Dispatched /\ 0 \in Dispatched /\ 2 \in Dispatched

(* C15: in cleanup_script the assembly (the read of the progress file that  *)
(* fills the vector, and the write of the output) starts only after every   *)
(* submitted batch has finished, its append included: no worker is fetching *)
(* or appending, and the lock is free, while the vector is assembled.       *)
C15_AssembleAfterDrain ==
    (Cleanup /\ pc \in {"assemble", "done"}) =>
        /\ \A b \in Workers : wpc[b] = "done" /\ wappends[b] = 1
        /\ ~locked

C15_Witness ==
    /\ Cleanup /\ pc = "assemble"
    /\ Len(batches) >= 2
    /\ \A b \in Workers : wpc[b] = "done"

\* every attempt of the lookup of index i raises
AlwaysFails(i) ==
    \A k \in 1 .. retries : service[TitleOf(i)][k].kind = "raise"

\* the cell of the record of index i in the progress file on disk
RecordedCell(i) ==
    file_rows[SetMax({k \in 1 .. Len(file_rows) : file_rows[k].Index = i})].Rating

(* C16: in cleanup_script, with a sound progress store and lookups that     *)
(* return or raise, the run eventually ends with the output written, for    *)
(* every pattern of lookup failures; no worker and no run is aborted, and a *)
(* key whose 3 attempts all fail is fetched once and recorded with an empty *)
(* Rating.                                                                  *)
C16_RunTerminates ==
    /\ <>((Cleanup /\ store = "ok") => (pc = "done" /\ Len(output) = NumRows))
    /\ []((Cleanup /\ store = "ok") =>
            /\ pc \notin {"aborting", "failed"}
            /\ \A b \in Workers : wpc[b] \notin {"unwind", "raised"})
    /\ []((Cleanup /\ store = "ok" /\ pc = "done") =>
            \A i \in Unprocessed :
                AlwaysFails(i) =>
                    /\ calls[i] = 1
                    /\ fetched[i] = None
                    /\ RecordedCell(i) = EmptyCell
                    /\ output[i + 1] = EmptyCell)

C16_Witness ==
    /\ Cleanup /\ store = "ok" /\ pc = "done"
    /\ service = ServiceFaulty
    /\ 0 \in Unprocessed /\ AlwaysFails(0) /\ fetched[0] = None
    /\ 5 \in Unprocessed /\ AlwaysFails(5) /\ RecordedCell(5) = EmptyCell
    /\ Len(output) = NumRows

(* C17: in cleanup_script a progress-store failure is fatal: when the       *)
(* progress file cannot be parsed at startup the run ends before any lookup *)
(* and any submit, and when the append of a batch raises the run never      *)
(* reaches the assembly and never writes the output.                        *)
C17_StoreFailureFatal ==
    /\ (Cleanup /\ ParseFails(start_file)) =>
          /\ pc \in {"start", "failed"}
          /\ calls = NoCalls
          /\ batches = <<>>
          /\ output = <<>>
    /\ (Cleanup /\ \E b \in Workers : wpc[b] \in {"unwind", "raised"}) =>
          /\ pc \in {"collect", "aborting", "failed"}
          /\ output = <<>>
    /\ (Cleanup /\ pc = "failed" /\ ~ParseFails(start_file)) =>
          \E b \in Workers : wpc[b] = "raised"

C17_Witness ==
    /\ Cleanup /\ pc = "failed" /\ store = "flaky"
    /\ \E b \in Workers : wpc[b] = "raised" /\ Len(wratings[b]) = Len(batches[b])
    /\ \E b \in Workers : wpc[b] = "done"
    /\ output = <<>>

(* C18: within a batch the indices are fetched one after another in the     *)
(* batch's order (the indices fetched so far are a prefix of the batch, and *)
(* rating k is the one fetched for index k of the batch), and the records   *)
(* of an appended batch stand in the progress file in that order as one     *)
(* contiguous block.                                                        *)
C18_BatchOrder ==
    \A b \in Workers :
        /\ Len(wratings[b]) <= Len(batches[b])
        /\ \A k \in 1 .. Len(batches[b]) :
              /\ k <= Len(wratings[b]) =>
                    /\ calls[batches[b][k]] = 1
                    /\ wratings[b][k] = fetched[batches[b][k]]
              /\ k > Len(wratings[b]) + 1 => calls[batches[b][k]] = 0
              /\ (k = Len(wratings[b]) + 1 /\ wpc[b] # "raised") =>
                    calls[batches[b][k]] = 0
        /\ b \in Appended =>
              \E off \in 0 .. (Len(file_rows) - Len(batches[b])) :
                  \A k \in 1 .. Len(batches[b]) :
                      /\ file_rows[off + k].Index = batches[b][k]
                      /\ file_rows[off + k].Rating = ToCsvCell(wratings[b][k])

C18_Witness ==
    /\ Cardinality(Appended) >= 2
    /\ 1 \in Appended /\ 2 \in Appended
    /\ Len(batches[1]) >= 2 /\ Len(batches[2]) >= 2
    /\ file_rows[Len(start_file.rows) + 1].Index = batches[2][1]
    /\ file_rows[Len(file_rows)].Index = batches[1][Len(batches[1])]

(* C19: in cleanup_script the output is a function of the final progress    *)
(* file: for every index with a record in the file the entry of the vector  *)
(* and the cell written are the Rating of the last record of that index in  *)
(* file order, whatever the as_completed loop wrote there.                  *)
C19_OutputFromProgressFile ==
    (Cleanup /\ pc = "done") =>
        \A i \in Indices :
            i \in ProcessedIndices(CurrentFile) =>
                /\ ratings[i] = RecordedRating(CurrentFile, i)
                /\ output[i + 1] = RecordedCell(i)

C19_Witness ==
    /\ Cleanup /\ pc = "done"
    /\ file0 = DuplicateRecordFile
    /\ ratings[0] = Float(77)
    /\ ProcessedIndices(CurrentFile) = Indices
    /\ \E i \in Indices :
          loop_written[i] # NotWritten /\ ~SameRating(loop_written[i], ratings[i])

(* C20: in both scripts the lock is held only by a worker inside its append *)
(* (never by a finished one, also after a read or a rewrite that raised),   *)
(* and no worker waits for the lock for ever: again and again the run is in *)
(* a state where no worker is waiting for it.                               *)
C20_LockReleased ==
    /\ [](locked => InAppend # {})
    /\ [](\A b \in Workers : Finished(b) => b \notin InAppend)
    /\ []<>(\A b \in Workers : wpc[b] # "lock")

C20_Witness ==
    /\ store = "flaky"
    /\ \E b \in Workers :
          /\ wpc[b] = "raised" /\ Len(wratings[b]) = Len(batches[b])
          /\ \E c \in Workers : c # b /\ wpc[c] = "write" /\ locked

====
